---- MODULE Spec2Model ----
(***************************************************************************)
(* Model of the log issue-detection pipeline of refraction,                *)
(* src/handlers/event/analyze_logs/issues.rs: the eleven static rules, the *)
(* pipeline driver `find` and the version freshness rule                   *)
(* `outdated_launcher` with its cache-then-network resolution.             *)
(*                                                                         *)
(* Strings that the code inspects character by character (version         *)
(* strings) are sequences of one-character strings.  A log is abstracted   *)
(* by what the rules can observe of it: the set of literal substrings it   *)
(* contains, the first capture of each regular expression, and the text    *)
(* that follows the version banner.                                        *)
(***************************************************************************)
EXTENDS Integers, Sequences, FiniteSets, TLC

\* Option<T>: None is the empty sequence, Some(x) a one-element sequence.
None == <<>>
Some(x) == <<x>>
IsSome(o) == o # <<>>
Unwrap(o) == o[1]

(***************************************************************************)
(* Version utility                                                         *)
(***************************************************************************)
DigitChars == {"0", "1", "2", "3", "4", "5", "6", "7", "8", "9"}

DigitVal(c) ==
    CASE c = "0" -> 0 [] c = "1" -> 1 [] c = "2" -> 2 [] c = "3" -> 3
      [] c = "4" -> 4 [] c = "5" -> 5 [] c = "6" -> 6 [] c = "7" -> 7
      [] c = "8" -> 8 [] c = "9" -> 9

RECURSIVE DecimalValue(_)
DecimalValue(s) ==
    IF s = <<>> THEN 0
    ELSE 10 * DecimalValue(SubSeq(s, 1, Len(s) - 1)) + DigitVal(s[Len(s)])

\* str::parse::<u32>().ok(): Some(n) for a non-empty run of digits, None
\* otherwise.  (A run of more than nine digits can exceed 32 bits and then
\* yields None as well; the version strings below are shorter than that.)
ParseU32(s) ==
    IF s # <<>> /\ (\A i \in 1..Len(s) : s[i] \in DigitChars)
    THEN Some(DecimalValue(s))
    ELSE None

\* str::split('.'): the pieces between the dots ("" gives one empty piece).
RECURSIVE SplitDots(_, _)
SplitDots(s, cur) ==
    IF s = <<>> THEN <<cur>>
    ELSE IF Head(s) = "." THEN <<cur>> \o SplitDots(Tail(s), <<>>)
    ELSE SplitDots(Tail(s), Append(cur, Head(s)))

RECURSIVE FilterMapParse(_)
FilterMapParse(pieces) ==
    IF pieces = <<>> THEN <<>>
    ELSE ParseU32(Head(pieces)) \o FilterMapParse(Tail(pieces))

\* utils::semver_split: split on '.', parse each piece as an unsigned
\* integer, skip the pieces that do not parse.
semver_split(version) == FilterMapParse(SplitDots(version, <<>>))

(***************************************************************************)
(* Logs                                                                    *)
(***************************************************************************)
\* The literal substrings the static rules look for (a backquote is written
\* as a quote, a line break as " / ", the check mark as "OK").
CLASS_NOT_FOUND == "Caused by: java.lang.ClassNotFoundException: "
FabricImpl == "Caused by: java.lang.ClassNotFoundException: net.fabricmc.fabric.impl"
FabricMixin == "Caused by: java.lang.ClassNotFoundException: net.fabricmc.fabric.mixin"
FabricLoaderImpl == "Caused by: java.lang.ClassNotFoundException: net.fabricmc.fabric.loader.impl"
FabricLoaderMixin == "Caused by: java.lang.ClassNotFoundException: net.fabricmc.fabric.loader.mixin"
QuiltNoSuchMethod == "org.quiltmc.loader.impl.FormattedException: java.lang.NoSuchMethodError:"
Glx13Config == "org.lwjgl.LWJGLException: Could not choose GLX13 config"
GlxFbConfig == "GLFW error 65545: GLX: Failed to find a suitable GLXFBConfig"
ManifestVerifier == "java.lang.NoSuchMethodError: sun.security.util.ManifestEntryVerifier.<init>(Ljava/util/jar/Manifest;)V"
PixelFormat == "org.lwjgl.LWJGLException: Pixel format not accelerated"
CheckMatch == "check_match: Assertion 'version->filename == NULL || ! _dl_name_match_p (version->filename, map)' failed!"
NsException == "Terminating app due to uncaught exception 'NSInternalInconsistencyException"
OutOfMemoryError == "java.lang.OutOfMemoryError"
OomExitCode == "-805306369"
OptiFineMod == "[OK] OptiFine_"
OptiFabricMod == "[OK] optifabric-"
NettyEpoll == "java.lang.RuntimeException: Unable to access address of buffer / at io.netty.channel.epoll"
JavaIncompatible == "Java major version is incompatible. Things might break."

\* log.contains(e)
Contains(log, e) == e \in log.contains

\* OUTDATED_LAUNCHER_REGEX, "Prism Launcher version: ((?:([0-9]+)\.)?([0-9]+)\.([0-9]+))",
\* applied to the text that follows the banner's literal prefix: capture
\* group 1 is digits '.' digits '.' digits when the text starts so, else
\* digits '.' digits when it starts so, else there is no match.
RECURSIVE DigitRun(_, _)
DigitRun(s, i) ==
    IF i <= Len(s) /\ s[i] \in DigitChars THEN 1 + DigitRun(s, i + 1) ELSE 0

VersionCapture(text) ==
    LET a == DigitRun(text, 1)
        b == DigitRun(text, a + 2)
        c == DigitRun(text, a + b + 3)
        dot1 == a + 1 <= Len(text) /\ text[a + 1] = "."
        dot2 == a + b + 2 <= Len(text) /\ text[a + b + 2] = "."
    IN  IF a = 0 \/ ~dot1 \/ b = 0 THEN None
        ELSE IF dot2 /\ c > 0 THEN Some(SubSeq(text, 1, a + b + c + 2))
        ELSE Some(SubSeq(text, 1, a + b + 1))

\* A capture that falls back to an empty version when the banner is missing.
LauncherCapturesOrDefault(log) ==
    IF IsSome(log.banner) /\ IsSome(VersionCapture(Unwrap(log.banner)))
    THEN VersionCapture(Unwrap(log.banner))
    ELSE Some(<<>>)

\* outdated_launcher.captures(log)
LauncherCaptures(log) ==
    IF IsSome(log.banner) THEN VersionCapture(Unwrap(log.banner)) ELSE None

(***************************************************************************)
(* Static rules: each maps a log to Option<(title, description)>.  A       *)
(* description is the sequence of the pieces format! concatenates.         *)
(***************************************************************************)
\* bool::then_some
ThenSome(found, issue) == IF found THEN Some(issue) ELSE None

fabric_internal(log) ==
    LET issue == <<"Fabric Internal Access",
                   <<"The mod you are using is using fabric internals that are not meant to be used by anything but the loader itself.">> >>
        errors == {FabricImpl, FabricMixin, FabricLoaderImpl, FabricLoaderMixin,
                   QuiltNoSuchMethod}
        found == \E e \in errors : Contains(log, e)
    IN  ThenSome(found, issue)

flatpak_nvidia(log) ==
    LET issue == <<"Outdated Nvidia Flatpak Driver",
                   <<"The Nvidia driver for flatpak is outdated.">> >>
        found == Contains(log, Glx13Config) \/ Contains(log, GlxFbConfig)
    IN  ThenSome(found, issue)

forge_java(log) ==
    LET issue == <<"Forge Java Bug",
                   <<"Old versions of Forge crash with Java 8u321+.">> >>
        found == Contains(log, ManifestVerifier)
    IN  ThenSome(found, issue)

intel_hd(log) ==
    LET issue == <<"Intel HD Windows 10",
                   <<"Your drivers don't support windows 10 officially">> >>
        found == Contains(log, PixelFormat)
    IN  ThenSome(found, issue)

\* log.vm_option and log.unrecognized_option are capture group 1 of the
\* first match of VM_OPTION_REGEX and of UNRECOGNIZED_OPTION_REGEX.
java_option(log) ==
    IF IsSome(log.vm_option) THEN
        LET title == IF Unwrap(log.vm_option) = "UseShenandoahGC"
                     THEN "Wrong Java Arguments"
                     ELSE "Java 8 and below don't support ShenandoahGC"
        IN  Some(<<title, <<"Remove '-XX:", Unwrap(log.vm_option),
                            "' from your Java arguments">> >>)
    ELSE IF IsSome(log.unrecognized_option) THEN
        Some(<<"Wrong Java Arguments",
               <<"Remove '", Unwrap(log.unrecognized_option),
                 "' from your Java arguments">> >>)
    ELSE None

lwjgl_2_java_9(log) ==
    LET issue == <<"Linux: crash with pre-1.13 and Java 9+",
                   <<"Using pre-1.13 (which uses LWJGL 2) with Java 9 or later usually causes a crash.">> >>
        found == Contains(log, CheckMatch)
    IN  ThenSome(found, issue)

macos_ns(log) ==
    LET issue == <<"MacOS NSInternalInconsistencyException",
                   <<"You need to downgrade your Java 8 version.">> >>
        found == Contains(log, NsException)
    IN  ThenSome(found, issue)

oom(log) ==
    LET issue == <<"Out of Memory",
                   <<"Allocating more RAM to your instance could help prevent this crash.">> >>
        found == Contains(log, OutOfMemoryError) \/ Contains(log, OomExitCode)
    IN  ThenSome(found, issue)

optinotfine(log) ==
    LET issue == <<"Potential OptiFine Incompatibilities",
                   <<"OptiFine is known to cause problems when paired with other mods.">> >>
        found == Contains(log, OptiFineMod) \/ Contains(log, OptiFabricMod)
    IN  ThenSome(found, issue)

pre_1_12_native_transport_java_9(log) ==
    LET issue == <<"Linux: broken multiplayer with 1.8-1.11 and Java 9+",
                   <<"These versions of Minecraft use an outdated version of Netty which does not properly support Java 9.">> >>
        found == Contains(log, NettyEpoll)
    IN  ThenSome(found, issue)

\* log.switch_version is capture group 1 of the first match of
\* SWITCH_VERSION_REGEX: one "Java version N" line, so the split on '\n'
\* and the join with ", " give it back unchanged.
wrong_java(log) ==
    IF IsSome(log.switch_version) THEN
        Some(<<"Wrong Java Version",
               <<"Please switch to one of the following: '",
                 Unwrap(log.switch_version),
                 "' / For more information, type '/tag java'">> >>)
    ELSE
        LET issue == <<"Java compatibility check skipped",
                       <<"The Java major version may not work with your Minecraft instance. Please switch to a compatible version">> >>
        IN  ThenSome(Contains(log, JavaIncompatible), issue)

\* The array `issues` of find, in declaration order.
issues ==
    <<"fabric_internal", "flatpak_nvidia", "forge_java", "intel_hd",
      "java_option", "lwjgl_2_java_9", "macos_ns", "oom", "optinotfine",
      "pre_1_12_native_transport_java_9", "wrong_java">>

\* issue(log) for a member of the array.
CallRule(issue, log) ==
    CASE issue = "fabric_internal" -> fabric_internal(log)
      [] issue = "flatpak_nvidia" -> flatpak_nvidia(log)
      [] issue = "forge_java" -> forge_java(log)
      [] issue = "intel_hd" -> intel_hd(log)
      [] issue = "java_option" -> java_option(log)
      [] issue = "lwjgl_2_java_9" -> lwjgl_2_java_9(log)
      [] issue = "macos_ns" -> macos_ns(log)
      [] issue = "oom" -> oom(log)
      [] issue = "optinotfine" -> optinotfine(log)
      [] issue = "pre_1_12_native_transport_java_9" ->
             pre_1_12_native_transport_java_9(log)
      [] issue = "wrong_java" -> wrong_java(log)

\* A collection that stops at the first rule that matches.
RECURSIVE FindMapRules(_, _)
FindMapRules(rules, log) ==
    IF rules = <<>> THEN <<>>
    ELSE IF IsSome(CallRule(Head(rules), log)) THEN CallRule(Head(rules), log)
    ELSE FindMapRules(Tail(rules), log)

\* issues.iter().filter_map(|issue| issue(log)).collect()
RECURSIVE FilterMapRules(_, _)
FilterMapRules(rules, log) ==
    IF rules = <<>> THEN <<>>
    ELSE CallRule(Head(rules), log) \o FilterMapRules(Tail(rules), log)

StaticIssues(log) == FilterMapRules(issues, log)

(***************************************************************************)
(* Version freshness rule: the pure steps of outdated_launcher             *)
(***************************************************************************)
\* A resolution that ignores the cached value and always asks the network.
AfterReadAlwaysFetch(read) == "get_latest_prism_version"

\* What `if let Ok(version) = storage.launcher_version().await` selects:
\* the comparison on a successful read, the network fetch otherwise.
AfterRead(read) == IF IsSome(read) THEN "compare" ELSE "get_latest_prism_version"

\* A resolution that never writes the fetched value back.
AfterFetchNoWrite(has_storage) == "compare"

\* What follows a successful fetch: the write-back when a storage backend
\* is configured, the comparison otherwise.
AfterFetch(has_storage) ==
    IF has_storage THEN "cache_launcher_version" ELSE "compare"

\* A write-back that stores the log's version instead of the fetched one.
CacheWriteLogVersion(log_ver, version) == log_ver

\* A write-back that stores the fetched version cut at its first dot.
CacheWriteMajor(log_ver, version) == Head(SplitDots(version, <<>>))

\* The argument of storage.cache_launcher_version: the fetched version.
CacheWriteValue(log_ver, version) == version

\* A comparison that exempts only versions with fewer than two components.
CompareVersionsAtLeastTwo(log_version_parts, latest_version_parts) ==
    IF Len(log_version_parts) < 2 THEN "outdated"
    ELSE IF Len(latest_version_parts) < 1 THEN "panic"
    ELSE IF log_version_parts[1] < latest_version_parts[1] THEN "outdated"
    ELSE IF log_version_parts[1] = latest_version_parts[1] THEN
        IF Len(latest_version_parts) < 2 THEN "panic"
        ELSE IF log_version_parts[2] < latest_version_parts[2] THEN "outdated"
        ELSE "current"
    ELSE "current"

\* The condition of the final `if`, evaluated left to right with Rust's
\* short-circuit operators; indexing a Vec past its end panics.
CompareVersions(log_version_parts, latest_version_parts) ==
    IF Len(log_version_parts) # 2 THEN "outdated"
    ELSE IF Len(latest_version_parts) < 1 THEN "panic"
    ELSE IF log_version_parts[1] < latest_version_parts[1] THEN "outdated"
    ELSE IF log_version_parts[1] = latest_version_parts[1] THEN
        IF Len(latest_version_parts) < 2 THEN "panic"
        ELSE IF log_version_parts[2] < latest_version_parts[2] THEN "outdated"
        ELSE "current"
    ELSE "current"

\* The issue built by format! when the launcher is outdated.
OutdatedIssue(log_ver, latest_ver) ==
    <<"Outdated Prism Launcher",
      <<"Your installed version is ">> \o log_ver
          \o <<", while the newest version is ">> \o latest_ver
          \o <<". / Please update; for more info see https://prismlauncher.org/download/">> >>

\* Results of find: Ok(issues), Err(error), or a panic unwinding the task.
Pending == [tag |-> "Pending", issues |-> <<>>, error |-> ""]
Ok(list) == [tag |-> "Ok", issues |-> list, error |-> ""]
Err(e) == [tag |-> "Err", issues |-> <<>>, error |-> e]
Panicked == [tag |-> "Panic", issues |-> <<>>, error |-> "index out of bounds"]

\* A find that degrades a freshness failure to "no issue from this rule".
FindErrSoft(res, e) == Ok(res)

\* find, lines 30-34, on Err from outdated_launcher: `?` returns the error.
FindErr(res, e) == Err(e)

\* find, lines 30-34, on Ok(issue) from outdated_launcher: push it if
\* present, return Ok(res).
FindOk(res, issue) == Ok(res \o issue)

\* Lines 212-227 followed by find's lines 30-34: the result of find once
\* the latest version is resolved.
FindAfterResolve(res, log_ver, latest_ver) ==
    LET verdict == CompareVersions(semver_split(log_ver), semver_split(latest_ver))
    IN  CASE verdict = "panic" -> Panicked
          [] verdict = "outdated" -> FindOk(res, Some(OutdatedIssue(log_ver, latest_ver)))
          [] verdict = "current" -> FindOk(res, None)

(***************************************************************************)
(* Inputs                                                                  *)
(***************************************************************************)
\* Most literal substrings and regex matches in one log.
MaxMarkers == 2
\* The same, for the logs analysed by concurrent invocations.
MaxConcMarkers == 1
\* Number of find invocations sharing one Data in ConcSpec.
NumInvocations == 2

V5_1 == <<"5", ".", "1">>
V5_2 == <<"5", ".", "2">>
V8_1 == <<"8", ".", "1">>
V5_1_2 == <<"5", ".", "1", ".", "2">>
V5_2_0 == <<"5", ".", "2", ".", "0">>
V5_1_9 == <<"5", ".", "1", ".", "9">>
V5 == <<"5">>
V8 == <<"8">>
VEmpty == <<>>

\* Texts that follow "Prism Launcher version: " in a log.
BannerTexts == {V5_1, V5_2, V8_1, V5_1_2, V5_2_0, V5}

\* Strings the release lookup or the cache can hold as the latest version
\* (a release tag is free text).
LatestVersions == {V5_2, V5_1_9, V8, VEmpty}

SampleSubstrings ==
    {FabricImpl, QuiltNoSuchMethod, Glx13Config, ManifestVerifier, PixelFormat,
     CheckMatch, NsException, OutOfMemoryError, OomExitCode, OptiFineMod,
     NettyEpoll, JavaIncompatible}

OptionOf(S) == {None} \cup {Some(x) : x \in S}

Markers(l) ==
    Cardinality(l.contains)
      + (IF IsSome(l.vm_option) THEN 1 ELSE 0)
      + (IF IsSome(l.unrecognized_option) THEN 1 ELSE 0)
      + (IF IsSome(l.switch_version) THEN 1 ELSE 0)

Logs(max) ==
    { l \in [contains : {c \in SUBSET SampleSubstrings : Cardinality(c) <= max},
             vm_option : OptionOf({"UseShenandoahGC", "UseZGC"}),
             unrecognized_option : OptionOf({"--foo"}),
             switch_version : OptionOf({"Java version 17"}),
             banner : OptionOf(BannerTexts)] : Markers(l) <= max }

\* The logs of the concurrent runs: the static rules do not interact with
\* the collaborators, so two of their substrings stand for all.
ConcLogs(max) ==
    { l \in Logs(max) :
        /\ l.contains \subseteq {OutOfMemoryError, JavaIncompatible}
        /\ l.vm_option = None
        /\ l.unrecognized_option = None
        /\ l.switch_version = None }

(***************************************************************************)
(* State                                                                   *)
(***************************************************************************)
VARIABLES
    tasks,          \* the find invocations of this run
    log,            \* the log they analyse
    storage,        \* data.storage.is_some()
    cache,          \* the launcher version held by the storage backend
    cache0,         \* its value before any invocation ran
    writable,       \* whether the storage backend accepts writes
    github,         \* the latest release, None when the lookup fails
    pc,             \* per invocation: the await it is suspended at
    res,            \* per invocation: find's local `res`
    log_version,    \* per invocation: captures[1]
    version,        \* per invocation: the fetched `version`
    latest_version, \* per invocation: the resolved latest version
    result,         \* per invocation: what find returned
    calls,          \* per invocation: the collaborator calls made, in order
    finished_before \* per invocation: the invocations done when it started

vars == <<tasks, log, storage, cache, cache0, writable, github, pc, res,
          log_version, version, latest_version, result, calls, finished_before>>

env == <<tasks, log, storage, cache0, writable, github>>

InitData ==
    /\ storage \in BOOLEAN
    /\ cache0 \in (IF storage THEN OptionOf(LatestVersions) ELSE {None})
    /\ cache = cache0
    /\ writable \in (IF storage THEN BOOLEAN ELSE {FALSE})
    /\ github \in OptionOf(LatestVersions)

InitTasks ==
    /\ pc = [p \in tasks |-> "start"]
    /\ res = [p \in tasks |-> <<>>]
    /\ log_version = [p \in tasks |-> None]
    /\ version = [p \in tasks |-> None]
    /\ latest_version = [p \in tasks |-> None]
    /\ result = [p \in tasks |-> Pending]
    /\ calls = [p \in tasks |-> <<>>]
    /\ finished_before = [p \in tasks |-> {}]

\* One find invocation.
Init ==
    /\ tasks = {1}
    /\ log \in Logs(MaxMarkers)
    /\ InitData
    /\ InitTasks

\* Several find invocations as concurrent tasks sharing one Data.
ConcInit ==
    /\ tasks = 1..NumInvocations
    /\ log \in ConcLogs(MaxConcMarkers)
    /\ InitData
    /\ InitTasks

(***************************************************************************)
(* Collaborators, at their interface: Result<String> is Some for Ok(s)     *)
(* and None for Err.                                                       *)
(***************************************************************************)
\* storage.launcher_version(): the stored version, an error when none is
\* stored.
launcher_version(stored) == stored

\* storage.cache_launcher_version(value): the stored version afterwards.
cache_launcher_version(stored, accepts, value) ==
    IF accepts THEN Some(value) ELSE stored

\* api::github::get_latest_prism_version(octocrab): the latest release.
get_latest_prism_version(latest) == latest

(***************************************************************************)
(* Steps of find, one per stretch of code between two awaits               *)
(***************************************************************************)
Call(op, ok, value) == [op |-> op, ok |-> ok, value |-> value]

\* find returns r.
Return(p, r) ==
    /\ result' = [result EXCEPT ![p] = r]
    /\ pc' = [pc EXCEPT ![p] = "done"]

\* Lines 212-227 and 30-34 with the latest version resolved to v.
Compare(p, v, made) ==
    /\ latest_version' = [latest_version EXCEPT ![p] = Some(v)]
    /\ calls' = [calls EXCEPT ![p] = made \o <<Call("compare", TRUE, v)>>]
    /\ Return(p, FindAfterResolve(res[p], Unwrap(log_version[p]), v))

\* Lines 12-28 and outdated_launcher up to its first await (lines 187-200).
Start(p) ==
    /\ pc[p] = "start"
    /\ finished_before' =
           [finished_before EXCEPT ![p] = {q \in tasks : pc[q] = "done"}]
    /\ res' = [res EXCEPT ![p] = StaticIssues(log)]
    /\ LET captures == LauncherCaptures(log)
       IN  IF ~IsSome(captures)
           THEN /\ Return(p, FindOk(StaticIssues(log), None))
                /\ UNCHANGED log_version
           ELSE /\ log_version' = [log_version EXCEPT ![p] = captures]
                /\ pc' = [pc EXCEPT ![p] =
                              IF storage THEN "launcher_version"
                              ELSE "get_latest_prism_version"]
                /\ UNCHANGED result
    /\ UNCHANGED <<env, cache, version, latest_version, calls>>

\* storage.launcher_version().await and what follows it (lines 201-203).
CacheRead(p) ==
    /\ pc[p] = "launcher_version"
    /\ LET read == launcher_version(cache)
           made == Append(calls[p],
                          Call("launcher_version", IsSome(read),
                               IF IsSome(read) THEN Unwrap(read) ELSE <<>>))
       IN  IF AfterRead(read) = "compare"
           THEN Compare(p, Unwrap(read), made)
           ELSE /\ calls' = [calls EXCEPT ![p] = made]
                /\ pc' = [pc EXCEPT ![p] = "get_latest_prism_version"]
                /\ UNCHANGED <<result, latest_version>>
    /\ UNCHANGED <<env, cache, res, log_version, version, finished_before>>

\* api::github::get_latest_prism_version(octocrab).await? (lines 204, 210).
Fetch(p) ==
    /\ pc[p] = "get_latest_prism_version"
    /\ LET fetched == get_latest_prism_version(github)
           made == Append(calls[p],
                          Call("get_latest_prism_version", IsSome(fetched),
                               IF IsSome(fetched) THEN Unwrap(fetched) ELSE <<>>))
       IN  IF ~IsSome(fetched)
           THEN /\ calls' = [calls EXCEPT ![p] = made]
                /\ Return(p, FindErr(res[p], "get_latest_prism_version"))
                /\ UNCHANGED <<version, latest_version>>
           ELSE /\ version' = [version EXCEPT ![p] = fetched]
                /\ IF AfterFetch(storage) = "compare"
                   THEN Compare(p, Unwrap(fetched), made)
                   ELSE /\ calls' = [calls EXCEPT ![p] = made]
                        /\ pc' = [pc EXCEPT ![p] = "cache_launcher_version"]
                        /\ UNCHANGED <<result, latest_version>>
    /\ UNCHANGED <<env, cache, res, log_version, finished_before>>

\* storage.cache_launcher_version(&version).await? (lines 205-206).
CacheWrite(p) ==
    /\ pc[p] = "cache_launcher_version"
    /\ LET value == CacheWriteValue(Unwrap(log_version[p]), Unwrap(version[p]))
           made == Append(calls[p], Call("cache_launcher_version", writable, value))
       IN  /\ cache' = cache_launcher_version(cache, writable, value)
           /\ IF ~writable
              THEN /\ calls' = [calls EXCEPT ![p] = made]
                   /\ Return(p, FindErr(res[p], "cache_launcher_version"))
                   /\ UNCHANGED latest_version
              ELSE Compare(p, Unwrap(version[p]), made)
    /\ UNCHANGED <<env, res, log_version, version, finished_before>>

Next == \E p \in tasks : Start(p) \/ CacheRead(p) \/ Fetch(p) \/ CacheWrite(p)

Spec == Init /\ [][Next]_vars

ConcSpec == ConcInit /\ [][Next]_vars

(***************************************************************************)
(* Properties                                                              *)
(***************************************************************************)
READ == "launcher_version"
FETCH == "get_latest_prism_version"
WRITE == "cache_launcher_version"

\* Positions in p's call sequence of the calls of one collaborator operation.
CallsAt(p, op) == {i \in 1..Len(calls[p]) : calls[p][i].op = op}
Succeeded(p, op) == \E i \in CallsAt(p, op) : calls[p][i].ok
Failed(p, op) == \E i \in CallsAt(p, op) : ~calls[p][i].ok
IsDone(p) == pc[p] = "done"
HasOutdatedIssue(r) ==
    /\ r.tag = "Ok"
    /\ r.issues # <<>>
    /\ r.issues[Len(r.issues)][1] = "Outdated Prism Launcher"

\* C1: when the cache read of an invocation succeeds, that invocation makes
\* no network fetch and no cache write, the cache keeps its value, and the
\* value read is the one used as the latest version.
C1_CacheHitSkipsNetwork ==
    \A p \in tasks :
        Succeeded(p, READ) =>
            /\ CallsAt(p, FETCH) = {}
            /\ CallsAt(p, WRITE) = {}
            /\ calls[p][1].op = READ
            /\ latest_version[p] = Some(calls[p][1].value)
            /\ cache = cache0

C1_Witness ==
    \E p \in tasks :
        /\ IsDone(p)
        /\ Succeeded(p, READ)
        /\ github # cache0
        /\ HasOutdatedIssue(result[p])

\* C2: after a failed cache read the network is asked exactly once and a
\* fetched value is written to the cache exactly once, right after the
\* fetch and before the comparison, unchanged; without a storage backend
\* the network is asked exactly once and nothing is written; a failed fetch
\* is never followed by a write.
C2_FetchThenWriteOnce ==
    \A p \in tasks :
        LET c == calls[p]
            F == CallsAt(p, FETCH)
            W == CallsAt(p, WRITE)
            K == CallsAt(p, "compare")
        IN  /\ Cardinality(F) <= 1
            /\ Cardinality(W) <= 1
            /\ (IsDone(p) /\ Failed(p, READ)) =>
                   /\ Cardinality(F) = 1
                   /\ Succeeded(p, FETCH) =>
                          /\ Cardinality(W) = 1
                          /\ \A f \in F, w \in W :
                                 /\ w = f + 1
                                 /\ c[w].value = c[f].value
                                 /\ \A k \in K : k = w + 1
            /\ (IsDone(p) /\ ~storage /\ IsSome(log_version[p])) =>
                   /\ Cardinality(F) = 1
                   /\ W = {}
            /\ Failed(p, FETCH) => W = {}

C2_Witness ==
    \E p \in tasks :
        /\ IsDone(p)
        /\ Failed(p, READ)
        /\ Succeeded(p, FETCH)
        /\ Succeeded(p, WRITE)
        /\ cache = github
        /\ result[p].tag = "Ok"

\* C3: find returns an error, and with it no issue at all, exactly when the
\* freshness rule failed: the network fetch failed (after a failed cache
\* read or without a storage backend) or the cache write failed.
C3_ErrorIffFreshnessFailure ==
    \A p \in tasks :
        IsDone(p) =>
            LET failure == Failed(p, FETCH) \/ Failed(p, WRITE)
            IN  /\ failure => (result[p].tag = "Err" /\ result[p].issues = <<>>)
                /\ result[p].tag = "Err" => failure
                /\ Failed(p, FETCH) => (~storage \/ Failed(p, READ))
                /\ Failed(p, WRITE) => Succeeded(p, FETCH)

C3_Witness ==
    \E p \in tasks :
        /\ IsDone(p)
        /\ result[p].tag = "Err"
        /\ Failed(p, WRITE)
        /\ Len(StaticIssues(log)) = 2

\* Version orders on parsed components, a missing component counting as 0:
\* on the first two components, and on all of them.
Part(parts, i) == IF i <= Len(parts) THEN parts[i] ELSE 0
MajorMinorLess(a, b) ==
    \/ Part(a, 1) < Part(b, 1)
    \/ (Part(a, 1) = Part(b, 1) /\ Part(a, 2) < Part(b, 2))
RECURSIVE PartsLess(_, _, _)
PartsLess(a, b, i) ==
    IF i > Len(a) /\ i > Len(b) THEN FALSE
    ELSE IF Part(a, i) # Part(b, i) THEN Part(a, i) < Part(b, i)
    ELSE PartsLess(a, b, i + 1)
Older(l, r) == MajorMinorLess(semver_split(l), semver_split(r))
Newer(l, r) == PartsLess(semver_split(r), semver_split(l), 1)

\* s occurs in d as a run of consecutive elements.
ContainsRun(d, s) ==
    \E i \in 0..(Len(d) - Len(s)) : SubSeq(d, i + 1, i + Len(s)) = s

\* C4: with banner version L and resolved latest version R, find reports
\* the outdated launcher, naming L and R, when L is older than R, and
\* reports nothing for it when L is newer than R or equal to it (R a
\* well-formed version of at least two components).
C4_OutdatedIffOlder ==
    \A p \in tasks :
        (/\ IsDone(p)
         /\ result[p].tag = "Ok"
         /\ IsSome(latest_version[p])
         /\ Len(semver_split(Unwrap(latest_version[p]))) >= 2) =>
            LET l == Unwrap(log_version[p])
                r == Unwrap(latest_version[p])
                r_issues == result[p].issues
            IN  IF Older(l, r)
                THEN /\ HasOutdatedIssue(result[p])
                     /\ ContainsRun(r_issues[Len(r_issues)][2], l)
                     /\ ContainsRun(r_issues[Len(r_issues)][2], r)
                ELSE (Newer(l, r) \/ l = r) => ~HasOutdatedIssue(result[p])

\* The ordering rule as the specification words it, on the parsed
\* components of the log's version and of the latest version.
JudgedOutdated(lp, rp) ==
    \/ Len(lp) # 2
    \/ (Len(rp) >= 1 /\ lp[1] < rp[1])
    \/ (Len(rp) >= 2 /\ lp[1] = rp[1] /\ lp[2] < rp[2])

\* C5: once the latest version is resolved, the outdated issue is reported
\* if and only if the log version's component count differs from 2, or its
\* first component is less than the latest's, or the first components are
\* equal and its second component is less than the latest's.
C5_ComparisonRule ==
    \A p \in tasks :
        (IsDone(p) /\ IsSome(latest_version[p])) =>
            (HasOutdatedIssue(result[p]) <=>
                JudgedOutdated(semver_split(Unwrap(log_version[p])),
                               semver_split(Unwrap(latest_version[p]))))

\* A three-component log version newer than the latest release is reported.
C5_Witness ==
    \E p \in tasks :
        /\ IsDone(p)
        /\ log_version[p] = Some(V5_2_0)
        /\ latest_version[p] = Some(V5_1_9)
        /\ HasOutdatedIssue(result[p])

\* C10: find never ends in an out-of-range access.
C10_NoPanic == \A p \in tasks : result[p].tag # "Panic"

\* The rule of the declaration order (1..11, 12 for the freshness rule)
\* that produces an issue of the given title.
RuleOfTitle(title) ==
    CASE title = "Fabric Internal Access" -> 1
      [] title = "Outdated Nvidia Flatpak Driver" -> 2
      [] title = "Forge Java Bug" -> 3
      [] title = "Intel HD Windows 10" -> 4
      [] title \in {"Wrong Java Arguments",
                    "Java 8 and below don't support ShenandoahGC"} -> 5
      [] title = "Linux: crash with pre-1.13 and Java 9+" -> 6
      [] title = "MacOS NSInternalInconsistencyException" -> 7
      [] title = "Out of Memory" -> 8
      [] title = "Potential OptiFine Incompatibilities" -> 9
      [] title = "Linux: broken multiplayer with 1.8-1.11 and Java 9+" -> 10
      [] title \in {"Wrong Java Version", "Java compatibility check skipped"} -> 11
      [] title = "Outdated Prism Launcher" -> 12

Triggering(l) == {i \in 1..Len(issues) : IsSome(CallRule(issues[i], l))}

\* C6: a successful find returns one entry per triggering rule, the static
\* rules' entries in declaration order and the freshness issue last.
C6_OnePerRuleInOrder ==
    \A p \in tasks :
        (IsDone(p) /\ result[p].tag = "Ok") =>
            LET out == result[p].issues
                fresh == IF HasOutdatedIssue(result[p]) THEN 1 ELSE 0
            IN  /\ Len(out) = Cardinality(Triggering(log)) + fresh
                /\ Len(out) <= 12
                /\ \A i \in Triggering(log) :
                       \E k \in 1..Len(out) :
                           /\ RuleOfTitle(out[k][1]) = i
                           /\ out[k] = Unwrap(CallRule(issues[i], log))
                /\ \A j, k \in 1..Len(out) :
                       j < k => RuleOfTitle(out[j][1]) < RuleOfTitle(out[k][1])

C6_Witness ==
    \E p \in tasks :
        /\ IsDone(p)
        /\ HasOutdatedIssue(result[p])
        /\ Len(result[p].issues) = 3
        /\ result[p].issues[1][1] = "Out of Memory"
        /\ result[p].issues[2][1] = "Java compatibility check skipped"

\* The text after the banner prefix holds a dotted version.
HasDottedVersion(text) ==
    \E i \in 1..(Len(text) - 2) :
        text[i] \in DigitChars /\ text[i + 1] = "." /\ text[i + 2] \in DigitChars

\* C7: on a log without the version banner an invocation calls no
\* collaborator, leaves the cache alone and returns exactly the static
\* rules' issues, whatever the collaborators would answer.
C7_NoBannerNoCalls ==
    (~IsSome(log.banner) \/ ~HasDottedVersion(Unwrap(log.banner))) =>
        /\ cache = cache0
        /\ \A p \in tasks :
               /\ calls[p] = <<>>
               /\ IsDone(p) =>
                      /\ result[p].tag = "Ok"
                      /\ Len(result[p].issues) = Cardinality(Triggering(log))
                      /\ ~HasOutdatedIssue(result[p])

C7_Witness ==
    \E p \in tasks :
        /\ IsDone(p)
        /\ log.banner = Some(V5)
        /\ github = None
        /\ storage /\ cache0 = None /\ ~writable
        /\ Len(result[p].issues) = 2

\* C8: an invocation that starts after another one has returned returns
\* the same result, also when the earlier one filled the cache and the
\* later one resolves the latest version from it.
C8_SecondRunSameResult ==
    \A p, q \in tasks :
        (IsDone(q) /\ p \in finished_before[q]) => result[q] = result[p]

C8_Witness ==
    \E p, q \in tasks :
        /\ IsDone(q)
        /\ p \in finished_before[q]
        /\ Succeeded(p, WRITE)
        /\ Succeeded(q, READ)
        /\ HasOutdatedIssue(result[q])
        /\ Len(result[q].issues) = 2

\* What one find invocation returns when it runs alone from the initial
\* state of the collaborators.
FindAlone ==
    LET static == StaticIssues(log)
        captures == LauncherCaptures(log)
    IN  IF ~IsSome(captures) THEN Ok(static)
        ELSE IF storage /\ IsSome(cache0)
        THEN FindAfterResolve(static, Unwrap(captures), Unwrap(cache0))
        ELSE IF ~IsSome(github) THEN Err(FETCH)
        ELSE IF storage /\ ~writable THEN Err(WRITE)
        ELSE FindAfterResolve(static, Unwrap(captures), Unwrap(github))

\* C9: with a shared cache that is empty at first and a network that gives
\* every caller the same version, in every interleaving each invocation
\* fetches at most once and writes at most once, the cache holds nothing
\* but that version, and each invocation returns what it returns alone.
C9_BenignRace ==
    (storage /\ cache0 = None) =>
        /\ cache \in {None, github}
        /\ \A p \in tasks :
               /\ Cardinality(CallsAt(p, FETCH)) <= 1
               /\ Cardinality(CallsAt(p, WRITE)) <= 1
               /\ \A i \in CallsAt(p, WRITE) : calls[p][i].value = Unwrap(github)
               /\ IsDone(p) => result[p] = FindAlone

\* Two invocations both miss the cache, both fetch and both write.
C9_Witness ==
    /\ storage /\ cache0 = None
    /\ \E p, q \in tasks :
           /\ p # q
           /\ IsDone(p) /\ IsDone(q)
           /\ Succeeded(p, WRITE) /\ Succeeded(q, WRITE)
           /\ HasOutdatedIssue(result[p])
           /\ HasOutdatedIssue(result[q])

====
